---- MODULE Spec2Model ----
(***************************************************************************)
(* A model of src/src/signal.ts (jotai-signal): the handle registry        *)
(* (signalCache / getSignal / signal), the suspend-capable read (use /     *)
(* readSignal), the structural scanner and the value substitution          *)
(* (findAllSignals / fillAllSignalValues), the list-stability hook         *)
(* (useMemoList), the re-render boundary (Rerenderer) and the element      *)
(* factory (createElement).                                                *)
(*                                                                         *)
(* The host rendering engine and the store are outside the file; they are  *)
(* modelled by the contract the file uses them under: a render pass runs   *)
(* the component function synchronously, a commit publishes its result,    *)
(* passive effects run after the commit and before the next render pass,   *)
(* store.sub registers a callback and returns its unsubscribe function,    *)
(* and a store write notifies the callbacks registered for that cell.      *)
(***************************************************************************)
EXTENDS Integers, Sequences, FiniteSets, TLC

VARIABLES
  signalCache,   \* WeakMap<Store, WeakMap<Atom, Signal>>  (line 58)
  allocated,     \* every Signal object constructed so far (lines 70-72)
  value,         \* value[s][a]: what store.get(a) returns in store s
  listeners,     \* callbacks registered by store.sub and not yet removed
  promises,      \* the promise objects handed out by the stores
  elem,          \* the element the parent last created with createElement
  inst,          \* the hooks of the mounted Rerenderer instance
  needsRender,   \* the host has a render pass of the boundary scheduled
  wip,           \* result of a render pass that is not committed yet
  effectPending, \* a commit left passive-effect work to flush
  suspendedOn,   \* promise whose settlement re-schedules the suspended pass
  output,        \* the committed output of the boundary
  pass,          \* what the latest render pass did (reads, calls, result)
  last           \* the latest step taken (kind and arguments)

vars == <<signalCache, allocated, value, listeners, promises, elem, inst,
          needsRender, wip, effectPending, suspendedOn, output, pass, last>>

----------------------------------------------------------------------------
(* Bounds and universes *)

Stores == {"s1", "s2"}
Atoms == {"a1", "a2"}
Displayable == {1, 2}
Errors == {"E1", "E2"}

\* the reducer state is only ever incremented; dispatches stop at this count
MaxCount == 2
\* promise objects the stores hand out in one run
MaxPromises == 1

----------------------------------------------------------------------------
(* Values that flow through props and children.  Every node has the same   *)
(* fields; id is the identity of an array/object (0 for non-objects).      *)

NoSignal == <<>>

Prim(n) == [k |-> "prim", id |-> 0, v |-> n, h |-> NoSignal, items |-> <<>>]
Null == [k |-> "null", id |-> 0, v |-> 0, h |-> NoSignal, items |-> <<>>]
Fn == [k |-> "fn", id |-> 0, v |-> 0, h |-> NoSignal, items |-> <<>>]
\* the number NaN, the one value that is not === to itself
NaN == [k |-> "nan", id |-> 0, v |-> 0, h |-> NoSignal, items |-> <<>>]
Sig(hd) == [k |-> "sig", id |-> 0, v |-> 0, h |-> hd, items |-> <<>>]
Arr(i, xs) == [k |-> "arr", id |-> i, v |-> 0, h |-> NoSignal, items |-> xs]
Obj(i, xs) == [k |-> "obj", id |-> i, v |-> 0, h |-> NoSignal, items |-> xs]

\* isSignal (line 56): the object carries the SIGNAL tag
isSignal(x) == x.k = "sig"

\* a Signal object: the store and atom its two closures captured (lines
\* 68-69) and the serial of the allocation, which tells objects apart
NewSignal(store, atom, heap) ==
  <<store, atom,
    1 + Cardinality({hd \in heap : hd[1] = store /\ hd[2] = atom})>>

----------------------------------------------------------------------------
(* HandleRegistry: getSignal (lines 60-76) and signal (lines 93-98)        *)

EmptyMap == <<>>

\* a getSignal that constructs a Signal on every call (cache never hit)
getSignalNoCache(cache, heap, store, atom) ==
  LET sg == NewSignal(store, atom, heap)
      inner == IF store \in DOMAIN cache THEN cache[store] ELSE EmptyMap
      inner2 == [a \in (DOMAIN inner) \cup {atom} |->
                   IF a = atom THEN sg ELSE inner[a]]
  IN [cache |-> [s \in (DOMAIN cache) \cup {store} |->
                   IF s = store THEN inner2 ELSE cache[s]],
      heap |-> heap \cup {sg},
      signal |-> sg]

getSignal(cache, heap, store, atom) ==
  LET cache1 == IF store \in DOMAIN cache
                  THEN cache
                  ELSE [s \in (DOMAIN cache) \cup {store} |->
                          IF s = store THEN EmptyMap ELSE cache[s]]
      atomSignalCache == cache1[store]
  IN IF atom \in DOMAIN atomSignalCache
       THEN [cache |-> cache1, heap |-> heap,
             signal |-> atomSignalCache[atom]]
       ELSE LET sg == NewSignal(store, atom, heap)
            IN [cache |-> [cache1 EXCEPT ![store] =
                             [a \in (DOMAIN atomSignalCache) \cup {atom} |->
                                IF a = atom THEN sg ELSE atomSignalCache[a]]],
                heap |-> heap \cup {sg},
                signal |-> sg]

\* signal(atom, store) (lines 93-98)
signal(cache, heap, atom, store) == getSignal(cache, heap, store, atom)

----------------------------------------------------------------------------
(* Store cells and promises (the Read type, line 50)                       *)

\* what store.get returns: a Displayable, or the promise object number pr
Imm(n) == [pr |-> 0, v |-> n]
Pend(p) == [pr |-> p, v |-> 0]

\* a promise object: how it settled (by its producer), the status / value /
\* reason fields that `use` maintains on it (lines 16-20), and whether the
\* then-callbacks of lines 30-39 are attached and have run
NewPromise ==
  [settled |-> "no", res |-> 0, err |-> "none",
   status |-> "unset", val |-> 0, reason |-> "none", then |-> "none"]

\* a promise object nothing refers to any more
Collected == [NewPromise EXCEPT !.settled = "collected"]

\* promise objects are reached through the cell that holds them and through
\* the host that waits for them; one that neither refers to is garbage and
\* is kept as one Collected record, whatever its history
Collect(proms, val, waited) ==
  [p \in 1..Len(proms) |->
     IF waited = p \/ \E s \in DOMAIN val : \E a \in DOMAIN val[s] :
                        val[s][a] = Pend(p)
       THEN proms[p] ELSE Collected]

\* results of a read or of a render execution: a value, a thrown promise
\* (suspension) or a thrown error
Ok(x, proms, reads) ==
  [st |-> "ok", val |-> x, p |-> 0, e |-> "none", proms |-> proms,
   reads |-> reads]
Suspend(p, proms, reads) ==
  [st |-> "suspend", val |-> Null, p |-> p, e |-> "none", proms |-> proms,
   reads |-> reads]
Throw(e, proms, reads) ==
  [st |-> "throw", val |-> Null, p |-> 0, e |-> e, proms |-> proms,
   reads |-> reads]

\* a `use` that hands out promise.value while the promise is pending
useEarly(p, proms) ==
  IF proms[p].status = "rejected" THEN Throw(proms[p].reason, proms, <<>>)
  ELSE Ok(Prim(proms[p].val), proms, <<>>)

\* a `use` that throws the promise itself when it is rejected
useNoReason(p, proms) ==
  IF proms[p].status = "fulfilled" THEN Ok(Prim(proms[p].val), proms, <<>>)
  ELSE Suspend(p, [proms EXCEPT ![p].status = "pending",
                                ![p].then = "attached"], <<>>)

\* use (lines 13-42)
use(p, proms) ==
  LET promise == proms[p]
  IN IF promise.status = "pending" THEN Suspend(p, proms, <<>>)
     ELSE IF promise.status = "fulfilled"
       THEN Ok(Prim(promise.val), proms, <<>>)
     ELSE IF promise.status = "rejected"
       THEN Throw(promise.reason, proms, <<>>)
     ELSE Suspend(p, [proms EXCEPT ![p].status = "pending",
                                   ![p].then = "attached"], <<>>)

\* the then-callbacks of lines 31-38, run once the promise has settled
thenCallback(promise) ==
  IF promise.settled = "ok"
    THEN [promise EXCEPT !.status = "fulfilled", !.val = promise.res,
                         !.then = "ran"]
    ELSE [promise EXCEPT !.status = "rejected", !.reason = promise.err,
                         !.then = "ran"]

\* the read closure of a Signal (line 69): store.get(atom)
read(sg, env) == env.value[sg[1]][sg[2]]

\* the Signal that was read is noted with the result
Noting(sg, r) == [r EXCEPT !.reads = <<sg>>]

\* the branches of lines 86-90 on the value read
readValue(sg, val, proms) ==
  IF val.pr # 0
    THEN Noting(sg, use(val.pr, proms))
    ELSE Ok(Prim(val.v), proms, <<sg>>)

\* readSignal (lines 83-91)
readSignal(sg, env) == readValue(sg, read(sg, env), env.proms)

----------------------------------------------------------------------------
(* StructuralScanner: findAllSignals (lines 128-139)                       *)

RECURSIVE findAllSignals(_)
RECURSIVE FlatMapFindBackwards(_)

\* a flatMap that puts what it finds in later items first
FlatMapFindBackwards(items) ==
  IF items = <<>> THEN <<>>
  ELSE FlatMapFindBackwards(Tail(items)) \o findAllSignals(Head(items))

RECURSIVE FlatMapFind(_)

\* x.flatMap(findAllSignals) / Object.values(x).flatMap(findAllSignals)
FlatMapFind(items) ==
  IF items = <<>> THEN <<>>
  ELSE findAllSignals(Head(items)) \o FlatMapFind(Tail(items))

findAllSignals(x) ==
  IF isSignal(x) THEN <<x.h>>
  ELSE IF x.k = "arr" THEN FlatMapFind(x.items)
  ELSE IF x.k = "obj" THEN FlatMapFind(x.items)
  ELSE <<>>

----------------------------------------------------------------------------
(* ValueSubstitution: fillAllSignalValues (lines 141-170)                  *)

\* item !== item2: objects and arrays compare by identity, the rest by
\* value, and NaN differs from everything, itself included
SameRef(a, b) ==
  IF a.k = "nan" \/ b.k = "nan" THEN FALSE
  ELSE IF a.k \in {"arr", "obj"} \/ b.k \in {"arr", "obj"}
    THEN a.k = b.k /\ a.id = b.id
    ELSE a = b

\* the identity of the object x.map / Object.fromEntries allocates for x
CopyId(x) == 0 - x.id

\* results of a map over items: the mapped items, whether one of them
\* changed, and what was read
NoItems(proms) ==
  [st |-> "ok", vals |-> <<>>, changed |-> FALSE, p |-> 0, e |-> "none",
   proms |-> proms, reads |-> <<>>]
\* the map ended by the throw of r
ItemsThrown(r) ==
  [st |-> r.st, vals |-> <<>>, changed |-> FALSE, p |-> r.p, e |-> r.e,
   proms |-> r.proms, reads |-> r.reads]
\* item mapped to r.val, followed by the rest of the map
ItemsCons(item, r, rest) ==
  [rest EXCEPT !.vals = <<r.val>> \o rest.vals,
               !.changed = (~SameRef(item, r.val)) \/ rest.changed,
               !.reads = r.reads \o rest.reads]

RECURSIVE fillAllSignalValues(_, _)
RECURSIVE FillItems(_, _)

\* after the first item was mapped to r: a throw ends the map
FillRest(items, env, r) ==
  IF r.st # "ok" THEN ItemsThrown(r)
  ELSE ItemsCons(Head(items), r, FillItems(Tail(items), env))

\* the map callbacks of lines 147-153 and 159-165, item by item
FillItems(items, env) ==
  IF items = <<>> THEN NoItems(env.proms)
  ELSE FillRest(items, env, fillAllSignalValues(Head(items), env))

\* `return changed ? x2 : x` (lines 154 and 167)
FillResult(x, rs) ==
  IF rs.st = "suspend" THEN Suspend(rs.p, rs.proms, rs.reads)
  ELSE IF rs.st = "throw" THEN Throw(rs.e, rs.proms, rs.reads)
  ELSE Ok(IF rs.changed
            THEN [x EXCEPT !.id = CopyId(x), !.items = rs.vals]
            ELSE x,
          rs.proms, rs.reads)

fillAllSignalValues(x, env) ==
  IF isSignal(x) THEN readSignal(x.h, env)
  ELSE IF x.k \in {"arr", "obj"} THEN FillResult(x, FillItems(x.items, env))
  ELSE Ok(x, env.proms, <<>>)

----------------------------------------------------------------------------
(* ElementFactory: createElement (lines 172-190)                           *)

NoList == [id |-> 0, items |-> <<>>]

\* the original element-creation primitive (imported, line 4): the element
\* is the triple it was given
createElementOrig(type, props, children) ==
  [type |-> type, props |-> props, children |-> children]

NoElem == createElementOrig("none", Null, <<>>)

\* a scan of the children with the recursive scanner
signalsInChildrenDeep(children) == findAllSignals(Arr(0, children))

RECURSIVE signalsInChildren(_)
\* children.flatMap((child) => isSignal(child) ? [child] : []) (lines 173-175)
signalsInChildren(children) ==
  IF children = <<>> THEN <<>>
  ELSE (IF isSignal(Head(children)) THEN <<Head(children).h>> ELSE <<>>)
         \o signalsInChildren(Tail(children))

\* const signalsInProps = findAllSignals(props) (line 176)
signalsInProps(props) == findAllSignals(props)

\* a createElement without the early return of lines 177-179
createElementAlways(type, props, children, listId) ==
  createElementOrig("Rerenderer",
    [signals |-> [id |-> listId,
                  items |-> signalsInChildren(children)
                              \o signalsInProps(props)],
     render |-> [type |-> type, props |-> props, children |-> children,
                 inChildren |-> Len(signalsInChildren(children)),
                 inProps |-> Len(signalsInProps(props))]],
    <<>>)

\* listId is the identity of the array `[...signalsInChildren,
\* ...signalsInProps]` allocated on line 187; the render closure of line 188
\* is the record of what it captured
createElement(type, props, children, listId) ==
  LET sc == signalsInChildren(children)
      sp == signalsInProps(props)
  IN IF Len(sc) = 0 /\ Len(sp) = 0
       THEN createElementOrig(type, props, children)
       ELSE createElementOrig("Rerenderer",
              [signals |-> [id |-> listId, items |-> sc \o sp],
               render |-> [type |-> type, props |-> props,
                           children |-> children,
                           inChildren |-> Len(sc), inProps |-> Len(sp)]],
              <<>>)

\* a map of the children that substitutes inside each child as well
MapChildrenDeep(children, env) == FillItems(children, env)

RECURSIVE MapChildren(_, _)

\* after the first child was mapped to r: a throw ends the map
MapRest(children, env, r) ==
  IF r.st # "ok" THEN ItemsThrown(r)
  ELSE ItemsCons(Head(children), r, MapChildren(Tail(children), env))

\* children.map((child) => isSignal(child) ? readSignal(child) : child)
\* (line 182), child by child
MapChildren(children, env) ==
  IF children = <<>> THEN NoItems(env.proms)
  ELSE MapRest(children, env,
               IF isSignal(Head(children))
                 THEN readSignal(Head(children).h, env)
                 ELSE Ok(Head(children), env.proms, <<>>))

\* getChildren (lines 180-183)
getChildren(cl, env) ==
  IF cl.inChildren # 0
    THEN MapChildren(cl.children, env)
    ELSE [NoItems(env.proms) EXCEPT !.vals = cl.children]

\* a getProps that substitutes whether or not the props hold a Signal
getPropsAlwaysFill(cl, env) == fillAllSignalValues(cl.props, env)

\* getProps (lines 184-185)
getProps(cl, env) ==
  IF cl.inProps # 0 THEN fillAllSignalValues(cl.props, env)
  ELSE Ok(cl.props, env.proms, <<>>)

\* createElementOrig(type, <props>, ...<children>) of line 188 once both
\* arguments are evaluated
renderElement(cl, pr, ch) ==
  IF ch.st = "suspend" THEN Suspend(ch.p, ch.proms, pr.reads \o ch.reads)
  ELSE IF ch.st = "throw" THEN Throw(ch.e, ch.proms, pr.reads \o ch.reads)
  ELSE Ok(createElementOrig(cl.type, pr.val, ch.vals), ch.proms,
          pr.reads \o ch.reads)

\* with getProps() evaluated to pr: a throw ends the call, otherwise
\* ...getChildren() is evaluated next
renderAfterProps(cl, env, pr) ==
  IF pr.st # "ok" THEN pr
  ELSE renderElement(cl, pr, getChildren(cl, [env EXCEPT !.proms = pr.proms]))

\* a render callback that evaluates ...getChildren() before getProps()
renderChildrenFirst(cl, env) ==
  LET ch == getChildren(cl, env)
      pr == getProps(cl, [env EXCEPT !.proms = ch.proms])
  IN IF ch.st = "suspend" THEN Suspend(ch.p, ch.proms, ch.reads)
     ELSE IF ch.st = "throw" THEN Throw(ch.e, ch.proms, ch.reads)
     ELSE IF pr.st # "ok" THEN [pr EXCEPT !.reads = ch.reads \o pr.reads]
     ELSE Ok(createElementOrig(cl.type, pr.val, ch.vals), pr.proms,
             ch.reads \o pr.reads)

\* the render callback (line 188): getProps() is evaluated before
\* ...getChildren()
render(cl, env) == renderAfterProps(cl, env, getProps(cl, env))

----------------------------------------------------------------------------
(* useMemoList (lines 100-110) and Rerenderer (lines 112-126)              *)

\* a compareFn that finds any two Signal objects equal
compareFnAlways(a, b) == TRUE

\* a comparison that finds no two items equal
compareFnNever(a, b) == FALSE

\* the default compareFn: a === b on Signal objects
compareFn(a, b) == a = b

\* a hook that compares the lengths of the lists only
useMemoListByLength(list, state) ==
  [setState |-> Len(list.items) # Len(state.items),
   ret |-> IF Len(list.items) # Len(state.items) THEN list ELSE state]

\* one call of the hook with the useState value `state`; setState says
\* whether line 107 scheduled the update
useMemoList(list, state) ==
  LET listChanged ==
        \/ Len(list.items) # Len(state.items)
        \/ \E index \in 1..Len(list.items) :
             ~compareFn(list.items[index], state.items[index])
  IN [setState |-> listChanged,
      ret |-> IF listChanged THEN list ELSE state]

\* a reducer that returns the state it was given
reducerSame(c) == c

\* useReducer((c) => c + 1, 0) (line 119): the reducer
reducer(c) == c + 1

\* one execution of the component function: its hooks, then `return
\* render()`; state is the value useState hands back in this execution
Rerenderer(props, state, env) ==
  [memo |-> useMemoList(props.signals, state),
   out |-> render(props.render, env)]

----------------------------------------------------------------------------
(* The host's side of a Rerenderer instance                                *)

\* the instance: signals is the `signals` prop of its last committed pass;
\* its hooks: count is the useReducer state, state the
\* useState value of useMemoList, memoedSignals the dependency of the
\* effect of lines 121-124 as of the last commit, unsubs the array its
\* cleanup closes over (line 122); torn records the cells whose callbacks
\* a cleanup of this instance removed and no later effect registered again
NoInst ==
  [phase |-> "none", count |-> 0, signals |-> NoList, state |-> NoList,
   memoedSignals |-> NoList, unsubs |-> <<>>, torn |-> {}]

NoWip ==
  [has |-> FALSE, signals |-> NoList, state |-> NoList,
   memoedSignals |-> NoList, out |-> NoElem]

NoPass == [st |-> "none", p |-> 0, e |-> "none", reads |-> <<>>, calls |-> 0]

NoInput == [props |-> Null, children |-> <<>>]

NoLast ==
  [kind |-> "init", store |-> "none", atom |-> "none", sg |-> NoSignal,
   hit |-> FALSE, n |-> 0, input |-> NoInput]

\* the pass that ends with execution x of the component function
PassResult(x, calls, state, before) ==
  [out |-> [x.out EXCEPT !.reads = before \o x.out.reads], calls |-> calls,
   state |-> state, memoedSignals |-> x.memo.ret]

\* after the first execution x1: when line 107 called setState during it,
\* the host runs the function again with the new state
RenderAgain(props, state0, env, x1) ==
  IF x1.out.st # "ok" \/ ~x1.memo.setState
    THEN PassResult(x1, 1, state0, <<>>)
    ELSE PassResult(Rerenderer(props, props.signals, env), 2, props.signals,
                    x1.out.reads)

\* one render pass of the host; an instance that is not mounted yet gets
\* its useState value from the initial argument (line 101)
RenderPass(props, mounted, hookState, env) ==
  RenderAgain(props, IF mounted THEN hookState ELSE props.signals, env,
              Rerenderer(props, IF mounted THEN hookState ELSE props.signals,
                         env))

\* the subscribe closure of a Signal (line 68) under subscribeSignal (lines
\* 78-81): store.sub(atom, callback) registers the callback and returns its
\* unsubscribe function, named here by the registration's number
FreshId(ls) == CHOOSE i \in 1..(Cardinality(ls) + 1) : \A l \in ls : l.id # i

\* a subscribe that registers with the first store whatever the Signal's
subscribeDefaultStore(sg, ls) ==
  [ls |-> ls \cup {[id |-> FreshId(ls), store |-> "s1", atom |-> sg[2]]},
   unsub |-> FreshId(ls)]

subscribeSignal(sg, ls) ==
  [ls |-> ls \cup {[id |-> FreshId(ls), store |-> sg[1], atom |-> sg[2]]},
   unsub |-> FreshId(ls)]

RECURSIVE SubscribeAll(_, _)

SubscribeCons(r, rest) ==
  [ls |-> rest.ls, unsubs |-> <<r.unsub>> \o rest.unsubs]

SubscribeRest(sigs, r) == SubscribeCons(r, SubscribeAll(Tail(sigs), r.ls))

\* memoedSignals.map((sig) => subscribeSignal(sig, rerender)) (line 122)
SubscribeAll(sigs, ls) ==
  IF sigs = <<>> THEN [ls |-> ls, unsubs |-> <<>>]
  ELSE SubscribeRest(sigs, subscribeSignal(Head(sigs), ls))

\* a cleanup that calls the first unsubscribe function only
UnsubscribeFirst(unsubs, ls) ==
  {l \in ls : unsubs = <<>> \/ unsubs[1] # l.id}

\* unsubs.forEach((unsub) => unsub()) (line 123)
UnsubscribeAll(unsubs, ls) ==
  {l \in ls : \A i \in 1..Len(unsubs) : unsubs[i] # l.id}

\* an effect that returns no cleanup: the earlier callbacks stay registered
runEffectNoCleanup(memoedSignals, unsubs, ls) ==
  SubscribeAll(memoedSignals.items, ls)

\* the effect of lines 121-124 when its dependency changed: the previous
\* cleanup, then the effect body
runEffect(memoedSignals, unsubs, ls) ==
  SubscribeAll(memoedSignals.items, UnsubscribeAll(unsubs, ls))

RECURSIVE Dispatches(_, _)
\* k calls of rerender (the dispatch of line 119)
Dispatches(c, k) == IF k = 0 THEN c ELSE Dispatches(reducer(c), k - 1)

\* the callbacks store.sub holds for a cell
ListenersOf(store, atom) ==
  {l \in listeners : l.store = store /\ l.atom = atom}

----------------------------------------------------------------------------
(* Inputs of the application                                               *)

H11 == <<"s1", "a1", 1>>
H12 == <<"s1", "a2", 1>>
H21 == <<"s2", "a1", 1>>

\* the (props, children) the parent passes to createElement
Inputs ==
  { [props |-> Null, children |-> <<Sig(H11)>>],
    [props |-> Obj(1, <<Sig(H11)>>), children |-> <<Sig(H11)>>],
    [props |-> Null, children |-> <<Sig(H12)>>],
    [props |-> Obj(1, <<Prim(1)>>), children |-> <<Prim(2)>>],
    [props |-> Obj(1, <<Arr(2, <<Sig(H21)>>)>>), children |-> <<Sig(H11)>>],
    [props |-> Null, children |-> <<Arr(2, <<Sig(H11)>>)>>] }

\* every Signal object inside an input, at any depth
SignalsIn(input) ==
  LET found == findAllSignals(input.props)
                 \o findAllSignals(Arr(0, input.children))
  IN {found[i] : i \in 1..Len(found)}

\* the Signal objects the registry holds
Cached ==
  UNION {{signalCache[s][a] : a \in DOMAIN signalCache[s]} :
           s \in DOMAIN signalCache}

IsBoundary(el) == el.type = "Rerenderer"

\* identities of the Signal arrays that are still referenced
LiveLists ==
  {inst.signals.id, inst.state.id, inst.memoedSignals.id, wip.signals.id,
   wip.state.id, wip.memoedSignals.id}
    \cup (IF IsBoundary(elem) THEN {elem.props.signals.id} ELSE {})

FreshList == CHOOSE i \in 1..6 : i \notin LiveLists

----------------------------------------------------------------------------
(* Steps                                                                   *)

Init ==
  /\ signalCache = EmptyMap
  /\ allocated = {}
  /\ value = [s \in Stores |-> [a \in Atoms |-> Imm(1)]]
  /\ listeners = {}
  /\ promises = <<>>
  /\ elem = NoElem
  /\ inst = NoInst
  /\ needsRender = FALSE
  /\ wip = NoWip
  /\ effectPending = FALSE
  /\ suspendedOn = 0
  /\ output = NoElem
  /\ pass = NoPass
  /\ last = NoLast

\* the application calls signal(atom, store)
CallSignal(store, atom) ==
  LET r == signal(signalCache, allocated, atom, store)
  IN /\ signalCache' = r.cache
     /\ allocated' = r.heap
     /\ last' = [NoLast EXCEPT !.kind = "signal", !.store = store,
                               !.atom = atom, !.sg = r.signal,
                               !.hit = (store \in DOMAIN signalCache
                                        /\ atom \in DOMAIN signalCache[store])]
     /\ UNCHANGED <<value, listeners, promises, elem, inst, needsRender, wip,
                    effectPending, suspendedOn, output, pass>>

\* callbacks that count the fire and ask for no render
NotifyNoRender(store, atom) ==
  LET k == Cardinality(ListenersOf(store, atom))
      mounted == inst.phase = "mounted"
  IN /\ mounted => inst.count + k <= MaxCount
     /\ inst' = IF mounted THEN [inst EXCEPT !.count = @ + k] ELSE inst
     /\ needsRender' = needsRender
     /\ last' = [NoLast EXCEPT !.kind = "set", !.store = store,
                               !.atom = atom, !.n = k]

\* the store runs the callbacks registered for (store, atom): each is the
\* rerender of the boundary (line 122), a dispatch on its reducer; the host
\* schedules a pass when the reducer state changed, and drops a dispatch to
\* an instance it has removed
Notify(store, atom) ==
  LET k == Cardinality(ListenersOf(store, atom))
      mounted == inst.phase = "mounted"
      c == Dispatches(inst.count, k)
  IN /\ mounted => inst.count + k <= MaxCount
     /\ inst' = IF mounted THEN [inst EXCEPT !.count = c] ELSE inst
     /\ needsRender' = (needsRender \/ (mounted /\ c # inst.count))
     /\ last' = [NoLast EXCEPT !.kind = "set", !.store = store,
                               !.atom = atom, !.n = k]

\* the cell (store, atom) changes to the immediate value v
SetCell(store, atom, v) ==
  /\ value[store][atom] # Imm(v)
  /\ value' = [value EXCEPT ![store][atom] = Imm(v)]
  /\ promises' = Collect(promises, value', suspendedOn)
  /\ Notify(store, atom)
  /\ UNCHANGED <<signalCache, allocated, listeners, elem, wip,
                 effectPending, suspendedOn, output, pass>>

\* the parent renders: it calls createElement with an input whose Signal
\* objects it got from signal(); an element of another type in the place
\* of the boundary removes the boundary
ParentRender(input) ==
  LET el == createElement("div", input.props, input.children, FreshList)
  IN /\ ~wip.has
     /\ ~effectPending
     /\ SignalsIn(input) \subseteq Cached
     /\ elem' = el
     /\ IF IsBoundary(el)
          THEN /\ needsRender' = TRUE
               /\ UNCHANGED <<inst, effectPending, suspendedOn, output,
                              promises>>
          ELSE /\ needsRender' = FALSE
               /\ suspendedOn' = 0
               /\ promises' = Collect(promises, value, 0)
               /\ output' = NoElem
               /\ IF inst.phase = "mounted"
                    THEN /\ inst' = [inst EXCEPT !.phase = "unmounting"]
                         /\ effectPending' = TRUE
                    ELSE UNCHANGED <<inst, effectPending>>
     /\ last' = [NoLast EXCEPT !.kind = "parent", !.input = input]
     /\ UNCHANGED <<signalCache, allocated, value, listeners, wip,
                    pass>>

\* the host takes the result rp of a render pass: a finished pass waits for
\* its commit, a suspended one for the promise, and a pass that threw is
\* handed to the host's error boundary, which removes the instance
RenderTaken(rp) ==
  /\ needsRender' = FALSE
  /\ promises' = Collect(rp.out.proms, value,
                          IF rp.out.st = "suspend" THEN rp.out.p ELSE 0)
  /\ pass' = [st |-> rp.out.st, p |-> rp.out.p, e |-> rp.out.e,
              reads |-> rp.out.reads, calls |-> rp.calls]
  /\ wip' = IF rp.out.st = "ok"
              THEN [has |-> TRUE, signals |-> elem.props.signals,
                    state |-> rp.state, memoedSignals |-> rp.memoedSignals,
                    out |-> rp.out.val]
              ELSE NoWip
  /\ suspendedOn' = IF rp.out.st = "suspend" THEN rp.out.p ELSE 0
  /\ IF rp.out.st = "throw"
       THEN /\ elem' = NoElem
            /\ output' = NoElem
            /\ inst' = IF inst.phase = "mounted"
                         THEN [inst EXCEPT !.phase = "unmounting"]
                         ELSE NoInst
            /\ effectPending' = (inst.phase = "mounted")
       ELSE UNCHANGED <<elem, output, inst, effectPending>>
  /\ last' = [NoLast EXCEPT !.kind = "render"]
  /\ UNCHANGED <<signalCache, allocated, value, listeners>>

\* a render pass of the boundary is due and the host is free to run it
RenderScheduled ==
  /\ needsRender
  /\ ~wip.has
  /\ ~effectPending
  /\ IsBoundary(elem)

\* the host runs a render pass of the boundary
Render ==
  /\ RenderScheduled
  /\ \E rp \in {RenderPass(elem.props, inst.phase = "mounted", inst.state,
                            [value |-> value, proms |-> promises])} :
       RenderTaken(rp)

\* array identities are only ever compared; at a commit the arrays still
\* referenced are the new useState value and, when it is another array, the
\* `signals` prop of the pass, and they are numbered 1 and 2 from there on
Renumber(list, state) ==
  [list EXCEPT !.id = IF list.id = state.id THEN 1 ELSE 2]

\* the host commits the pass: hook state and output become current, and the
\* effect is scheduled when its dependency is another array than before
Commit ==
  /\ wip.has
  /\ inst' = [inst EXCEPT !.phase = "mounted",
                          !.signals = Renumber(wip.signals, wip.state),
                          !.state = Renumber(wip.state, wip.state),
                          !.memoedSignals =
                            Renumber(wip.memoedSignals, wip.state)]
  /\ elem' = [elem EXCEPT !.props.signals = Renumber(@, wip.state)]
  /\ effectPending' = (inst.phase # "mounted"
                        \/ wip.memoedSignals.id # inst.memoedSignals.id)
  /\ output' = wip.out
  /\ wip' = NoWip
  /\ last' = [NoLast EXCEPT !.kind = "commit"]
  /\ UNCHANGED <<signalCache, allocated, value, listeners, promises,
                 needsRender, suspendedOn, pass>>

\* the cells of the callbacks that the unsubscribe functions stand for
CellsOf(unsubs, ls) ==
  {<<l.store, l.atom>> : l \in {x \in ls : \E i \in 1..Len(unsubs) :
                                              unsubs[i] = x.id}}

\* the effect ran: r holds the store's callbacks and the new unsubs
EffectRan(r) ==
  /\ listeners' = r.ls
  /\ inst' = [inst EXCEPT
                !.unsubs = r.unsubs,
                !.torn = (@ \cup CellsOf(inst.unsubs, listeners))
                           \ CellsOf(r.unsubs, r.ls)]

\* the host flushes the passive effects: cleanup and effect body of lines
\* 121-124, or the cleanup alone for a removed instance
Effect ==
  /\ effectPending
  /\ effectPending' = FALSE
  /\ IF inst.phase = "unmounting"
       THEN /\ listeners' = UnsubscribeAll(inst.unsubs, listeners)
            /\ inst' = NoInst
       ELSE EffectRan(runEffect(inst.memoedSignals, inst.unsubs, listeners))
  /\ last' = [NoLast EXCEPT !.kind = "effect"]
  /\ UNCHANGED <<signalCache, allocated, value, promises, elem, needsRender,
                 wip, suspendedOn, output, pass>>

\* the cell (store, atom) changes to a promise that is not settled yet
SetPending(store, atom) ==
  /\ Len(promises) < MaxPromises
  /\ value' = [value EXCEPT ![store][atom] = Pend(Len(promises) + 1)]
  /\ promises' = Collect(Append(promises, NewPromise), value', suspendedOn)
  /\ Notify(store, atom)
  /\ UNCHANGED <<signalCache, allocated, listeners, elem, wip, effectPending,
                 suspendedOn, output, pass>>

\* the producer of promise p resolves it with v
Resolve(p, v) ==
  /\ promises[p].settled = "no"
  /\ promises' = [promises EXCEPT ![p].settled = "ok", ![p].res = v]
  /\ last' = [NoLast EXCEPT !.kind = "resolve", !.n = p]
  /\ UNCHANGED <<signalCache, allocated, value, listeners, elem, inst,
                 needsRender, wip, effectPending, suspendedOn, output, pass>>

\* the producer of promise p rejects it with e
Reject(p, e) ==
  /\ promises[p].settled = "no"
  /\ promises' = [promises EXCEPT ![p].settled = "err", ![p].err = e]
  /\ last' = [NoLast EXCEPT !.kind = "reject", !.n = p]
  /\ UNCHANGED <<signalCache, allocated, value, listeners, elem, inst,
                 needsRender, wip, effectPending, suspendedOn, output, pass>>

\* the job queue runs the callbacks line 30 attached to the settled promise
Reaction(p) ==
  /\ promises[p].then = "attached"
  /\ promises[p].settled # "no"
  /\ promises' = [promises EXCEPT ![p] = thenCallback(@)]
  /\ last' = [NoLast EXCEPT !.kind = "reaction", !.n = p]
  /\ UNCHANGED <<signalCache, allocated, value, listeners, elem, inst,
                 needsRender, wip, effectPending, suspendedOn, output, pass>>

\* the host's own callback on the thrown promise, attached after those of
\* line 30 and therefore run after them: it schedules the suspended pass
Ping ==
  /\ suspendedOn # 0
  /\ promises[suspendedOn].settled # "no"
  /\ promises[suspendedOn].then # "attached"
  /\ suspendedOn' = 0
  /\ promises' = Collect(promises, value, 0)
  /\ needsRender' = TRUE
  /\ last' = [NoLast EXCEPT !.kind = "ping", !.n = suspendedOn]
  /\ UNCHANGED <<signalCache, allocated, value, listeners, elem,
                 inst, wip, effectPending, output, pass>>

\* the cells the application's Signal objects stand for
AppCells == {<<"s1", "a1">>, <<"s1", "a2">>, <<"s2", "a1">>}

RECURSIVE SignalAll(_, _, _)
\* module-level `const h = signal(atom, store)` for each cell of a set
SignalAll(cells, cache, heap) ==
  IF cells = {} THEN [cache |-> cache, heap |-> heap]
  ELSE LET c == CHOOSE x \in cells : TRUE
           r == signal(cache, heap, c[2], c[1])
       IN SignalAll(cells \ {c}, r.cache, r.heap)

\* the state once the application has made its Signal objects
InitApp ==
  LET r == SignalAll(AppCells, EmptyMap, {})
  IN /\ signalCache = r.cache
     /\ allocated = r.heap
     /\ value = [s \in Stores |-> [a \in Atoms |-> Imm(1)]]
     /\ listeners = {}
     /\ promises = <<>>
     /\ elem = NoElem
     /\ inst = NoInst
     /\ needsRender = FALSE
     /\ wip = NoWip
     /\ effectPending = FALSE
     /\ suspendedOn = 0
     /\ output = NoElem
     /\ pass = NoPass
     /\ last = NoLast

\* the boundary's life: cell changes interleaved with the parent's renders
\* and the host's render, commit and effect steps
Next ==
  \/ \E c \in AppCells, v \in Displayable : SetCell(c[1], c[2], v)
  \/ \E input \in Inputs : ParentRender(input)
  \/ Render
  \/ Commit
  \/ Effect

Spec == InitApp /\ [][Next]_vars

\* the registry from the start: calls of signal() for every store and cell,
\* interleaved with the parent's createElement calls
RegistryNext ==
  \/ \E store \in Stores, atom \in Atoms : CallSignal(store, atom)
  \/ \E input \in Inputs : ParentRender(input)

RegistrySpec == Init /\ [][RegistryNext]_vars

\* inputs whose Signal objects stand for cells that may hold a promise
AsyncInputs ==
  { [props |-> Null, children |-> <<Sig(H11)>>],
    [props |-> Obj(1, <<Arr(2, <<Sig(H11)>>)>>), children |-> <<Sig(H12)>>],
    [props |-> Obj(1, <<Prim(1)>>), children |-> <<Prim(2)>>] }

AsyncCells == {<<"s1", "a1">>}

\* the boundary's life when a cell may hold a promise
AsyncNext ==
  \/ \E c \in AsyncCells, v \in Displayable : SetCell(c[1], c[2], v)
  \/ \E c \in AsyncCells : SetPending(c[1], c[2])
  \/ \E p \in 1..Len(promises), v \in Displayable : Resolve(p, v)
  \/ \E p \in 1..Len(promises), e \in Errors : Reject(p, e)
  \/ \E p \in 1..Len(promises) : Reaction(p)
  \/ Ping
  \/ \E input \in AsyncInputs : ParentRender(input)
  \/ Render
  \/ Commit
  \/ Effect

AsyncSpec == InitApp /\ [][AsyncNext]_vars

----------------------------------------------------------------------------
(* Claims                                                                  *)

\* the registry holds a Signal for (store, atom)
HasEntry(cache, store, atom) ==
  store \in DOMAIN cache /\ atom \in DOMAIN cache[store]

\* C1: a registry entry, once inserted for a (store, atom) pair, is never
\* replaced, and every call signal(atom, store) returns the entry of its
\* pair; so every call returns the Signal object the first call for the
\* pair returned, whatever calls for other pairs come in between.
C1_SameHandle ==
  [][ /\ \A store \in Stores, atom \in Atoms :
           HasEntry(signalCache, store, atom) =>
             /\ HasEntry(signalCache', store, atom)
             /\ signalCache'[store][atom] = signalCache[store][atom]
      /\ last'.kind = "signal" =>
           /\ HasEntry(signalCache', last'.store, last'.atom)
           /\ last'.sg = signalCache'[last'.store][last'.atom]
    ]_vars

\* a repeated call for a pair, with entries of other pairs in the registry
C1_Witness ==
  /\ last.kind = "signal"
  /\ last.hit
  /\ last.sg = signalCache[last.store][last.atom]
  /\ Cardinality(Cached) >= 3

\* the boundary is mounted and the host has nothing left to do for it
Idle ==
  /\ inst.phase = "mounted"
  /\ IsBoundary(elem)
  /\ ~needsRender
  /\ ~wip.has
  /\ ~effectPending
  /\ suspendedOn = 0

\* what the render callback of the current element yields from the cells
\* as they are now
FreshOutput ==
  render(elem.props.render, [value |-> value, proms |-> promises]).val

\* C2 (as claimed): no update is missed; once the host has nothing left to
\* do, the committed output shows the current value of every cell read.
C2_NoMissedUpdate == Idle => output = FreshOutput

\* the cells of a list of Signal objects
CellsIn(items) == {<<items[i][1], items[i][2]>> : i \in 1..Len(items)}

\* the cells for which the store holds a callback
SubscribedCells == {<<l.store, l.atom>> : l \in listeners}

\* C3 (as claimed): in every reachable state of a mounted boundary the
\* handles with an active subscription are those of the most recently
\* committed handle list.
C3_Original ==
  inst.phase = "mounted" => SubscribedCells = CellsIn(inst.signals.items)

\* C3 (amended): whenever the boundary is mounted and the effect of its
\* last commit has been flushed, the handles with an active subscription
\* are exactly those of the most recently committed handle list, and every
\* callback the store holds is one the boundary can unsubscribe; once the
\* boundary is removed and its cleanup has run, no subscription is left.
C3_SubscriptionsMatch ==
  /\ (inst.phase = "mounted" /\ ~effectPending) =>
       /\ SubscribedCells = CellsIn(inst.signals.items)
       /\ CellsOf(inst.unsubs, listeners) = SubscribedCells
       /\ \A l \in listeners : \E i \in 1..Len(inst.unsubs) :
            inst.unsubs[i] = l.id
  /\ inst.phase = "none" => listeners = {}

\* the list changed from one cell to another and the effect has run
C3_Witness ==
  /\ inst.phase = "mounted"
  /\ ~effectPending
  /\ last.kind = "effect"
  /\ inst.torn # {}
  /\ SubscribedCells = CellsIn(inst.signals.items)
  /\ SubscribedCells # {}

\* C4: once a pass whose list no longer contains a handle is committed and
\* its effect has run, a fire of that handle's cell reaches no callback of
\* the boundary: no dispatch happens and no render pass is scheduled.
C4_NoStaleFire ==
  [][ ( /\ inst.phase = "mounted"
        /\ ~effectPending
        /\ last'.kind = "set"
        /\ <<last'.store, last'.atom>> \notin CellsIn(inst.signals.items) )
      => ( /\ last'.n = 0
           /\ inst' = inst
           /\ needsRender' = needsRender ) ]_vars

\* the cell of a handle that was dropped from the list has fired, and the
\* boundary stays idle
C4_Witness ==
  /\ Idle
  /\ last.kind = "set"
  /\ <<last.store, last.atom>> \in inst.torn
  /\ <<last.store, last.atom>> \notin CellsIn(inst.signals.items)
  /\ inst.signals.items # <<>>

\* C5: for an idle boundary, one fire of a subscribed handle schedules a
\* render pass; that pass invokes the render callback once, on the cells
\* as they are then, and leaves nothing scheduled; its commit publishes
\* the new output, re-runs no effect and schedules nothing, and no step
\* of the host schedules a pass by itself: the fire causes exactly one pass.
C5_OnePassPerFire ==
  [][ /\ Idle => elem.props.signals = inst.signals
      /\ ( /\ Idle
           /\ last'.kind = "set"
           /\ <<last'.store, last'.atom>> \in CellsIn(inst.signals.items) )
         => ( /\ needsRender'
              /\ last'.n >= 1
              /\ inst'.count = inst.count + last'.n
              /\ ~wip'.has /\ ~effectPending'
              /\ elem' = elem )
      /\ ( /\ inst.phase = "mounted"
           /\ last'.kind = "render"
           /\ elem.props.signals = inst.signals )
         => ( /\ ~needsRender'
              /\ pass'.calls = 1
              /\ pass'.st = "ok"
              /\ wip'.has
              /\ wip'.out = FreshOutput
              /\ wip'.memoedSignals = inst.memoedSignals )
      /\ ( /\ inst.phase = "mounted"
           /\ last'.kind = "commit"
           /\ wip.signals = inst.signals )
         => ( /\ ~effectPending'
              /\ needsRender' = needsRender
              /\ output' = wip.out )
      /\ last'.kind \in {"render", "commit", "effect"}
         => (needsRender' => needsRender)
    ]_vars

\* one fire reached the idle boundary, the pass it caused is committed, the
\* output shows the changed cell and the boundary is idle again
C5_Witness ==
  /\ Idle
  /\ last.kind = "commit"
  /\ inst.count = 1
  /\ pass.calls = 1
  /\ output = FreshOutput
  /\ \E c \in CellsIn(inst.signals.items) : value[c[1]][c[2]] = Imm(2)

\* C6 (as claimed): the boundary holds at most one outstanding subscription
\* per handle of its current list, also when the list holds the handle
\* more than once.
C6_OnePerHandle ==
  \A c \in CellsIn(inst.signals.items) :
    Cardinality(ListenersOf(c[1], c[2])) <= 1

\* the host runs what is scheduled and the job queue runs the callbacks of
\* settled promises; the fairness of Render is written out ([]<>~enabled or
\* []<>step): a step with last'.kind = "render" is a Render step
AsyncFairSpec ==
  /\ AsyncSpec
  /\ ([]<>~RenderScheduled \/ []<><<last'.kind = "render">>_vars)
  /\ WF_vars(Commit)
  /\ WF_vars(Effect)
  /\ WF_vars(Ping)
  /\ WF_vars(\E p \in 1..Len(promises) : Reaction(p))

\* the cells a pass of the current element reads
ReadCells == CellsIn(elem.props.signals.items)

\* the promises held by the cells a pass reads
ReadPromises ==
  {value[c[1]][c[2]].pr : c \in {x \in ReadCells : value[x[1]][x[2]].pr # 0}}

RECURSIVE PrimsIn(_)
\* the numbers that occur in a value, at any depth
PrimsIn(x) ==
  IF x.k = "prim" THEN {x.v}
  ELSE UNION {PrimsIn(x.items[i]) : i \in 1..Len(x.items)}

\* the numbers an element shows in its props and children
Shown(el) ==
  PrimsIn(el.props) \cup UNION {PrimsIn(el.children[i]) :
                                  i \in 1..Len(el.children)}

\* C7: a render pass that reads a handle whose cell holds a promise not yet
\* recorded as settled suspends: it commits nothing and waits for the
\* promise; once the promise is recorded as fulfilled with v, a pass reads
\* v synchronously and its output shows v; a pass whose cells all hold
\* immediate values never suspends; and a pass suspended on a promise that
\* resolves is resumed, so that the committed output comes to show the
\* resolved value unless the cell or the element changes first.
C7_SuspendResume ==
  /\ [][ last'.kind = "render" =>
           /\ ReadPromises = {} => (pass'.st = "ok" /\ wip'.has)
           /\ \A p \in ReadPromises :
                /\ promises[p].status \in {"unset", "pending"} =>
                     /\ pass'.st = "suspend"
                     /\ pass'.p = p
                     /\ suspendedOn' = p
                     /\ ~wip'.has
                     /\ output' = output
                     /\ promises'[p].status = "pending"
                     /\ promises'[p].then # "none"
                /\ promises[p].status = "fulfilled" =>
                     /\ pass'.st = "ok"
                     /\ wip'.has
                     /\ promises[p].settled = "ok"
                     /\ promises[p].res \in Shown(wip'.out)
       ]_vars
  /\ \A p \in 1..MaxPromises :
       (suspendedOn = p /\ promises[p].settled = "ok")
         ~> \/ ~IsBoundary(elem)
            \/ p \notin ReadPromises
            \/ /\ inst.phase = "mounted"
               /\ output = FreshOutput
               /\ promises[p].res \in Shown(output)

\* a pass suspended, its promise resolved to 2, and the committed output
\* shows 2
C7_Witness ==
  /\ Idle
  /\ last.kind = "commit"
  /\ \E p \in ReadPromises :
       /\ promises[p].status = "fulfilled"
       /\ promises[p].then = "ran"
       /\ promises[p].res = 2
       /\ 2 \in Shown(output)

\* C8 (as claimed): once the promise read through a handle is rejected
\* with E, the next render pass that reads the handle fails with E.
C8_Original ==
  [][ last'.kind = "render" =>
        \A p \in ReadPromises :
          promises[p].settled = "err" =>
            (pass'.st = "throw" /\ pass'.e = promises[p].err)
    ]_vars

\* C8 (amended): once the then-callback of the first read has recorded the
\* rejection in the promise's status, a render pass that reads the handle
\* fails with exactly the rejection's E and commits no value; a pass that
\* reads it before that suspends, also when the promise is rejected
\* already, and is resumed, so that a pass fails with E unless the cell or
\* the element changes first.  The failed pass reads the handle once and
\* nothing is scheduled after it (no retry).  The status of a promise only
\* ever goes unset -> pending -> fulfilled | rejected, as the promise
\* settled.
C8_RejectedRead ==
  /\ \A p \in 1..MaxPromises :
       (suspendedOn = p /\ promises[p].settled = "err")
         ~> \/ /\ pass.st = "throw"
               /\ p <= Len(promises)
               /\ pass.e = promises[p].err
            \/ elem # NoElem /\ ~IsBoundary(elem)
            \/ IsBoundary(elem) /\ p \notin ReadPromises
  /\ [][ /\ last'.kind = "render" =>
             \A p \in ReadPromises :
               /\ promises[p].status = "rejected" =>
                    /\ pass'.st = "throw"
                    /\ pass'.e = promises[p].err
                    /\ pass'.e \in Errors
                    /\ pass'.calls = 1
                    /\ Len(pass'.reads) >= 1
                    /\ \A i \in 1..(Len(pass'.reads) - 1) :
                         value[pass'.reads[i][1]][pass'.reads[i][2]].pr # p
                    /\ ~wip'.has
                    /\ output' = NoElem
                    /\ ~needsRender'
                    /\ ~IsBoundary(elem')
               /\ (promises[p].settled = "err"
                     /\ promises[p].status # "rejected") =>
                    (pass'.st = "suspend" /\ ~wip'.has /\ output' = output)
        /\ \A p \in 1..Len(promises) :
             (promises'[p] # Collected
                /\ promises'[p].status # promises[p].status) =>
               \/ /\ promises[p].status = "unset"
                  /\ promises'[p].status = "pending"
               \/ /\ promises[p].status = "pending"
                  /\ promises'[p].status = "fulfilled"
                  /\ promises[p].settled = "ok"
               \/ /\ promises[p].status = "pending"
                  /\ promises'[p].status = "rejected"
                  /\ promises[p].settled = "err"
      ]_vars

\* a pass has just failed with the E its promise was rejected with
C8_Witness ==
  /\ last.kind = "render"
  /\ pass.st = "throw"
  /\ pass.e \in Errors
  /\ \E p \in 1..Len(promises) :
       /\ promises[p].status = "rejected"
       /\ promises[p].err = pass.e
  /\ ~IsBoundary(elem)

----------------------------------------------------------------------------
(* The element factory over generated arguments                            *)

MaxDepth == 2

\* values without structure: a number, null, a function, NaN and two
\* Signal objects
Leaves == {Prim(1), Null, Fn, NaN, Sig(H11), Sig(H12)}

RECURSIVE ValuesTo(_)
\* values nested at most d arrays / objects deep
ValuesTo(d) ==
  IF d = 0 THEN Leaves
  ELSE LET inner == ValuesTo(d - 1)
       IN Leaves \cup {Arr(d, <<x>>) : x \in inner}
                 \cup {Obj(d, <<x>>) : x \in inner}

\* the props objects: null, an object with one property of any generated
\* value, and objects with two properties
PropsValues ==
  {Null}
    \cup {Obj(MaxDepth + 1, <<x>>) : x \in ValuesTo(MaxDepth)}
    \cup {Obj(MaxDepth + 1, <<x, y>>) :
            x \in {Sig(H11), Sig(H12), Prim(1)},
            y \in {Arr(1, <<Sig(H12)>>), Prim(2), Sig(H11)}}

\* the children lists: none, one child of any generated value, two children
ChildLists ==
  {<<>>}
    \cup {<<x>> : x \in ValuesTo(MaxDepth)}
    \cup {<<x, y>> :
            x \in {Sig(H11), Prim(1), Arr(1, <<Sig(H12)>>)},
            y \in {Sig(H12), Sig(H11), Null, Obj(1, <<Sig(H11)>>)}}

ElemInputs == [props : PropsValues, children : ChildLists]

\* the parent's first render, with any generated arguments
FirstRender(input) ==
  /\ elem = NoElem
  /\ ParentRender(input)

\* a cell changes before the parent's first render
SetBefore(store, atom, v) ==
  /\ elem = NoElem
  /\ SetCell(store, atom, v)

\* the cells of the Signal objects among the generated values
ElemCells == {<<"s1", "a1">>, <<"s1", "a2">>}

ElemNext ==
  \/ \E input \in ElemInputs : FirstRender(input)
  \/ \E c \in ElemCells, v \in Displayable : SetBefore(c[1], c[2], v)
  \/ Render
  \/ Commit
  \/ Effect

ElemSpec == InitApp /\ [][ElemNext]_vars

\* an element made by the original primitive is in the tree
IsHostElement(el) == el # NoElem /\ ~IsBoundary(el)

\* C9: createElement called with props and children that contain no handle
\* at any depth returns exactly what createElementOrig returns for the same
\* type, props and children; no boundary is created, and for that element
\* nothing is subscribed, no handle is read and no render pass of a
\* boundary is scheduled or run.
C9_NoHandleIsOriginal ==
  /\ [][ (last'.kind = "parent" /\ SignalsIn(last'.input) = {}) =>
           /\ elem' = createElementOrig("div", last'.input.props,
                                        last'.input.children)
           /\ ~IsBoundary(elem')
           /\ ~needsRender'
           /\ listeners' = listeners
           /\ pass' = pass
       ]_vars
  /\ [](IsHostElement(elem) =>
          /\ listeners = {}
          /\ pass = NoPass
          /\ inst = NoInst
          /\ ~needsRender
          /\ ~wip.has
          /\ ~effectPending)

\* a call with structured props and children, none of them a handle, has
\* returned the original element
C9_Witness ==
  /\ last.kind = "parent"
  /\ SignalsIn(last.input) = {}
  /\ last.input.props.k = "obj"
  /\ Len(last.input.children) = 1
  /\ last.input.children[1].k = "arr"
  /\ IsHostElement(elem)
  /\ elem.props = last.input.props
  /\ elem.children = last.input.children

\* the handles the recursive scanner finds in a children list
DeepInChildren(children) == findAllSignals(Arr(0, children))

\* C10 (as claimed): createElement scans the children list and the props
\* each with the recursive scanner; whenever either holds a handle at any
\* depth the result is a boundary whose list is all children-handles
\* followed by all props-handles.
C10_DeepScanBoundary ==
  [][ last'.kind = "parent" =>
        LET inChildren == DeepInChildren(last'.input.children)
            inProps == findAllSignals(last'.input.props)
        IN (Len(inChildren) + Len(inProps) > 0) =>
             /\ IsBoundary(elem')
             /\ elem'.props.signals.items = inChildren \o inProps
    ]_vars

\* the children that are handles themselves, in order
DirectChildren(children) ==
  LET sel == SelectSeq(children, isSignal)
  IN [i \in 1..Len(sel) |-> sel[i].h]

\* C10 (amended): createElement collects from the children list the
\* children that are handles themselves (a handle nested inside a child is
\* not collected) and from the props every handle at any depth, with the
\* recursive scanner; when either collection is not empty the result is a
\* boundary whose list is the children-handles followed by the
\* props-handles, and otherwise, also when a handle is nested inside a
\* child, it is the original element.
C10_DirectChildrenDeepProps ==
  [][ last'.kind = "parent" =>
        LET inChildren == DirectChildren(last'.input.children)
            inProps == findAllSignals(last'.input.props)
        IN IF Len(inChildren) + Len(inProps) > 0
             THEN /\ IsBoundary(elem')
                  /\ elem'.props.signals.items = inChildren \o inProps
                  /\ needsRender'
             ELSE elem' = createElementOrig("div", last'.input.props,
                                            last'.input.children)
    ]_vars

\* a call with a handle as a child, another nested inside a child and one
\* nested in the props has returned a boundary for the first and the last
C10_Witness ==
  /\ last.kind = "parent"
  /\ Len(last.input.children) = 2
  /\ DirectChildren(last.input.children) = <<H11>>
  /\ DeepInChildren(last.input.children) = <<H12, H11>>
  /\ findAllSignals(last.input.props) = <<H12>>
  /\ last.input.props.items[1].k = "arr"
  /\ IsBoundary(elem)
  /\ elem.props.signals.items = <<H11, H12>>

RECURSIVE Replaced(_, _, _)
\* y is x with every handle, at any depth, replaced by the value of its
\* cell in val, whatever the identities of the objects of y
Replaced(x, y, val) ==
  IF isSignal(x) THEN y = Prim(val[x.h[1]][x.h[2]].v)
  ELSE IF x.k \in {"arr", "obj"}
    THEN /\ y.k = x.k
         /\ Len(y.items) = Len(x.items)
         /\ \A i \in 1..Len(x.items) : Replaced(x.items[i], y.items[i], val)
  ELSE y = x

\* C11: in the element the render callback of a boundary creates, a child
\* that is a handle is replaced by the value read from its cell, any other
\* child is passed as it was given, the handles nested inside it included,
\* and in the props every handle at any depth is replaced by the value
\* read from its cell.
C11_ChildrenShallowPropsDeep ==
  [][ last'.kind = "render" =>
        LET given == elem.props.render
            made == wip'.out
        IN /\ pass'.st = "ok"
           /\ wip'.has
           /\ made.type = given.type
           /\ Len(made.children) = Len(given.children)
           /\ \A i \in 1..Len(given.children) :
                IF isSignal(given.children[i])
                  THEN made.children[i] =
                         Prim(value[given.children[i].h[1]]
                                   [given.children[i].h[2]].v)
                  ELSE made.children[i] = given.children[i]
           /\ Replaced(given.props, made.props, value)
           /\ findAllSignals(made.props) = <<>>
    ]_vars

\* a pass has made an element from a handle as a child (its cell holds 2),
\* a handle nested in the second child, passed through, and a handle
\* nested two deep in the props (its cell holds 2)
C11_Witness ==
  /\ last.kind = "render"
  /\ wip.has
  /\ Len(wip.out.children) = 2
  /\ elem.props.render.children[1] = Sig(H11)
  /\ wip.out.children[1] = Prim(2)
  /\ wip.out.children[2] = Obj(1, <<Sig(H11)>>)
  /\ findAllSignals(elem.props.render.props) = <<H12>>
  /\ elem.props.render.props.items[1].k = "arr"
  /\ value["s1"]["a2"] = Imm(2)
  /\ 2 \in PrimsIn(wip.out.props)

----------------------------------------------------------------------------
(* The scanner and the substitution over generated values                  *)

RECURSIVE Shift(_, _)
\* the value x built from other objects: every identity moved by k
Shift(x, k) ==
  IF x.k \in {"arr", "obj"}
    THEN [x EXCEPT !.id = @ + k,
                   !.items = [i \in 1..Len(x.items) |-> Shift(x.items[i], k)]]
    ELSE x

\* the arguments of the scanner and of the substitution: every value
\* nested up to MaxDepth + 1 deep with one item per level, arrays of two
\* values, and arrays with values at depth 1, at depth 2 and deeper
ScanValues ==
  ValuesTo(MaxDepth + 1)
    \cup {Arr(9, <<x, Shift(y, 10)>>) :
            x \in ValuesTo(MaxDepth - 1), y \in ValuesTo(MaxDepth - 1)}
    \cup {Arr(9, <<x, Obj(8, <<y>>), Shift(z, 10)>>) :
            x \in {Sig(H11), Sig(H12), Prim(1)},
            y \in {Sig(H11), Sig(H12), Prim(1)},
            z \in ValuesTo(MaxDepth)}

\* the application holds its Signal objects, the two cells hold any of the
\* displayable values, and x is the value to be scanned or substituted
ScanInit ==
  LET r == SignalAll(AppCells, EmptyMap, {})
  IN /\ signalCache = r.cache
     /\ allocated = r.heap
     /\ value \in {[s \in Stores |-> [a \in Atoms |->
                      IF s = "s1" THEN Imm(IF a = "a1" THEN v1 ELSE v2)
                      ELSE Imm(1)]] : v1 \in Displayable, v2 \in Displayable}
     /\ listeners = {}
     /\ promises = <<>>
     /\ elem = NoElem
     /\ inst = NoInst
     /\ needsRender = FALSE
     /\ wip = NoWip
     /\ effectPending = FALSE
     /\ suspendedOn = 0
     /\ output = NoElem
     /\ pass = NoPass
     /\ last \in {[NoLast EXCEPT !.input = [props |-> x, children |-> <<>>]] :
                    x \in ScanValues}

\* findAllSignals(x): the list it returns is kept in pass.reads
CallFind ==
  /\ last.kind = "init"
  /\ pass' = [NoPass EXCEPT !.reads = findAllSignals(last.input.props)]
  /\ last' = [last EXCEPT !.kind = "find"]
  /\ UNCHANGED <<signalCache, allocated, value, listeners, promises, elem,
                 inst, needsRender, wip, effectPending, suspendedOn, output>>

\* the call returned r: the value is kept as the props of output
FillReturned(r) ==
  /\ output' = createElementOrig("filled", r.val, <<>>)
  /\ pass' = [NoPass EXCEPT !.st = r.st, !.reads = r.reads]

\* fillAllSignalValues(x)
CallFill ==
  /\ last.kind = "init"
  /\ \E r \in {fillAllSignalValues(last.input.props,
                                   [value |-> value, proms |-> promises])} :
       FillReturned(r)
  /\ last' = [last EXCEPT !.kind = "fill"]
  /\ UNCHANGED <<signalCache, allocated, value, listeners, promises, elem,
                 inst, needsRender, wip, effectPending, suspendedOn>>

ScanNext == CallFind \/ CallFill

ScanSpec == ScanInit /\ [][ScanNext]_vars

RECURSIVE HandlePaths(_)
\* the places of the handles in x: for each, the item numbers that lead
\* to it from x
HandlePaths(x) ==
  IF isSignal(x) THEN {<<>>}
  ELSE IF x.k \in {"arr", "obj"}
    THEN UNION {{<<i>> \o path : path \in HandlePaths(x.items[i])} :
                  i \in 1..Len(x.items)}
  ELSE {}

RECURSIVE At(_, _)
\* the value at a place of x
At(x, path) ==
  IF path = <<>> THEN x ELSE At(x.items[Head(path)], Tail(path))

\* place p is met before place q going left to right, depth first
Before(p, q) ==
  \E i \in 1..Len(p) :
    /\ i <= Len(q)
    /\ \A j \in 1..(i - 1) : p[j] = q[j]
    /\ p[i] < q[i]

\* C12: findAllSignals(x) returns one entry for each place of x that holds
\* a handle, the entries in the order the places are met going left to
\* right, depth first (so a handle at k places gives k entries), and the
\* empty list when no place of x holds a handle: for null, a primitive, a
\* function, and objects and arrays without handles.
C12_EncounterOrder ==
  [][ last'.kind = "find" =>
        LET x == last.input.props
            found == pass'.reads
            places == HandlePaths(x)
        IN /\ Len(found) = Cardinality(places)
           /\ \A p \in places :
                found[1 + Cardinality({q \in places : Before(q, p)})]
                  = At(x, p).h
           /\ x.k \in {"null", "prim", "fn", "nan"} => found = <<>>
    ]_vars

\* the scan of an array with a handle at depth 1, another at depth 2 and
\* the first again at depth 3 has returned the three in that order
C12_Witness ==
  /\ last.kind = "find"
  /\ pass.reads = <<H11, H12, H11>>
  /\ HandlePaths(last.input.props) = {<<1>>, <<2, 1>>, <<3, 1, 1>>}

RECURSIVE Shares(_, _, _)
\* y is x with exactly the handles replaced by the values of their cells:
\* a part of x without handles is the same object in y, a part with
\* handles is another object of the same shape
Shares(x, y, val) ==
  IF isSignal(x) THEN y = Prim(val[x.h[1]][x.h[2]].v)
  ELSE IF findAllSignals(x) = <<>> THEN y = x
  ELSE /\ y.k = x.k
       /\ y.id # x.id
       /\ Len(y.items) = Len(x.items)
       /\ \A i \in 1..Len(x.items) : Shares(x.items[i], y.items[i], val)

\* C13 (as claimed): fillAllSignalValues(x) returns x itself when x holds
\* no handle; otherwise it returns a new structure in which exactly the
\* handles are replaced by their values and every part without a handle
\* is the object of the input; x is not changed.
C13_StructuralSharing ==
  [][ last'.kind = "fill" =>
        /\ pass'.st = "ok"
        /\ Shares(last.input.props, output'.props, value)
        /\ last'.input = last.input
    ]_vars

RECURSIVE Times(_, _)
\* the sequence s, n times over
Times(s, n) == IF n = 0 THEN <<>> ELSE s \o Times(s, n - 1)

\* C14 (as claimed): within a render pass the handles are read in the
\* order of the boundary's handle list (children-handles, then
\* props-handles), at each execution of the render callback in the pass.
C14_ReadInListOrder ==
  [][ (last'.kind = "render" /\ pass'.st = "ok") =>
        pass'.reads = Times(elem.props.signals.items, pass'.calls)
    ]_vars

\* C14 (amended): at each execution of the render callback the handles of
\* the props are read first, in the order the scan of the props found
\* them, and the children that are handles after them, left to right;
\* when both the props and the children hold handles this is not the
\* order of the handle list, which has the children-handles first.
C14_PropsReadFirst ==
  [][ (last'.kind = "render" /\ pass'.st = "ok") =>
        LET given == elem.props.render
            inProps == findAllSignals(given.props)
            inChildren == DirectChildren(given.children)
        IN /\ pass'.reads = Times(inProps \o inChildren, pass'.calls)
           /\ elem.props.signals.items = inChildren \o inProps
           /\ pass'.calls \in {1, 2}
    ]_vars

\* a pass of a boundary whose list is the child's handle and then the
\* handle in the props has read the handle in the props first
C14_Witness ==
  /\ last.kind = "render"
  /\ pass.st = "ok"
  /\ pass.calls = 1
  /\ elem.props.signals.items = <<H11, H21>>
  /\ pass.reads = <<H21, H11>>

\* C15: a fire delivered to the callbacks of a cell only asks for a render
\* of the boundary: the step of the fire reads no handle and changes
\* neither the pass in progress nor the output, and when it reaches a
\* callback of the mounted boundary a render pass is scheduled; what a
\* pass has read changes in render steps only.
C15_FireOnlySchedules ==
  [][ /\ last'.kind = "set" =>
           /\ pass' = pass
           /\ wip' = wip
           /\ output' = output
           /\ (inst.phase = "mounted" /\ last'.n >= 1) =>
                /\ needsRender'
                /\ inst'.count = inst.count + last'.n
      /\ pass' # pass => last'.kind = "render"
      /\ wip' # wip => last'.kind \in {"render", "commit"}
    ]_vars

\* a fire has reached the mounted boundary: a pass is scheduled and the
\* output still shows the value from before the change
C15_Witness ==
  /\ last.kind = "set"
  /\ last.n >= 1
  /\ inst.phase = "mounted"
  /\ IsBoundary(elem)
  /\ needsRender
  /\ ~wip.has
  /\ pass.st = "ok"
  /\ output # FreshOutput

----------------------------------------------------------------------------
(* useMemoList over generated lists                                        *)

MaxList == 2

\* the lists of at most MaxList of the application's Signal objects
MemoLists == UNION {[1..n -> {H11, H12, H21}] : n \in 0..MaxList}

\* a component that calls useMemoList: inst.state is the array its useState
\* holds, wip.signals the array the call is given
MemoInit ==
  LET r == SignalAll(AppCells, EmptyMap, {})
  IN /\ signalCache = r.cache
     /\ allocated = r.heap
     /\ value = [s \in Stores |-> [a \in Atoms |-> Imm(1)]]
     /\ listeners = {}
     /\ promises = <<>>
     /\ elem = NoElem
     /\ inst \in {[NoInst EXCEPT !.state = [id |-> 1, items |-> items]] :
                    items \in MemoLists}
     /\ needsRender = FALSE
     /\ wip \in {[NoWip EXCEPT !.signals = [id |-> 2, items |-> items]] :
                   items \in MemoLists}
     /\ effectPending = FALSE
     /\ suspendedOn = 0
     /\ output = NoElem
     /\ pass = NoPass
     /\ last = NoLast

\* the call returned m: what it returned is kept in wip.memoedSignals, and
\* wip.state is the array useState holds from then on (line 107 sets it)
MemoReturned(m) ==
  /\ wip' = [wip EXCEPT !.memoedSignals = m.ret,
                        !.state = IF m.setState THEN wip.signals
                                  ELSE inst.state]
  /\ last' = [NoLast EXCEPT !.kind = "memo", !.hit = m.setState]

\* useMemoList(list) in a pass
CallMemo ==
  /\ last.kind = "init"
  /\ \E m \in {useMemoList(wip.signals, inst.state)} : MemoReturned(m)
  /\ UNCHANGED <<signalCache, allocated, value, listeners, promises, elem,
                 inst, needsRender, effectPending, suspendedOn, output, pass>>

\* the call of the following pass returned m
MemoReturnedAgain(m) ==
  /\ inst' = [inst EXCEPT !.memoedSignals = m.ret]
  /\ last' = [NoLast EXCEPT !.kind = "again", !.hit = m.setState]

\* useMemoList(list) in the following pass, with a newly allocated array
\* of the same items
CallMemoAgain ==
  /\ last.kind = "memo"
  /\ \E m \in {useMemoList([id |-> 3, items |-> wip.signals.items],
                           wip.state)} : MemoReturnedAgain(m)
  /\ UNCHANGED <<signalCache, allocated, value, listeners, promises, elem,
                 needsRender, wip, effectPending, suspendedOn, output, pass>>

MemoNext == CallMemo \/ CallMemoAgain

MemoSpec == MemoInit /\ [][MemoNext]_vars

\* C16: useMemoList(list) returns the array its state holds, and sets no
\* state, exactly when list has the length of that array and the same
\* item at every index (two empty arrays included); otherwise (an item
\* added, removed, or another item at some index) it returns list and
\* sets it as the state, and the call of the following pass, given
\* another array of the same items, returns that same array again and sets
\* no state.
C16_MemoList ==
  [][ /\ last'.kind = "memo" =>
           LET list == wip.signals
               state == inst.state
               same == /\ Len(list.items) = Len(state.items)
                       /\ \A i \in 1..Len(list.items) :
                            list.items[i] = state.items[i]
           IN IF same
                THEN /\ wip'.memoedSignals = state
                     /\ wip'.state = state
                     /\ ~last'.hit
                ELSE /\ wip'.memoedSignals = list
                     /\ wip'.state = list
                     /\ last'.hit
      /\ last'.kind = "again" =>
           /\ inst'.memoedSignals = wip.memoedSignals
           /\ inst'.memoedSignals.id # 3
           /\ ~last'.hit
    ]_vars

\* a list with the items of the state in another order was returned and
\* set, and the following pass got that array back
C16_Witness ==
  /\ last.kind = "again"
  /\ inst.state.items = <<H11, H12>>
  /\ wip.signals.items = <<H12, H11>>
  /\ wip.memoedSignals = wip.signals
  /\ inst.memoedSignals = wip.signals

\* C17: when a pass is committed whose `signals` prop is a newly allocated
\* array with the items of the array of the pass committed before, the
\* effect of lines 121-124 is not scheduled: the commit leaves the
\* registered callbacks and the unsubscribe functions as they are, and
\* callbacks are registered and removed in runs of the effect only.
C17_EqualListKeepsSubscriptions ==
  [][ /\ ( /\ last'.kind = "commit"
           /\ inst.phase = "mounted"
           /\ wip.signals.id # inst.signals.id
           /\ wip.signals.id # inst.state.id
           /\ wip.signals.items = inst.signals.items )
         => /\ ~effectPending'
            /\ inst'.memoedSignals = inst.memoedSignals
            /\ listeners' = listeners
            /\ inst'.unsubs = inst.unsubs
      /\ (listeners' # listeners \/ inst'.unsubs # inst.unsubs)
         => effectPending /\ last'.kind = "effect"
    ]_vars

\* the pass over a new array with the same two items was committed and the
\* two callbacks of the first run of the effect are still the registered ones
C17_Witness ==
  /\ last.kind = "commit"
  /\ inst.phase = "mounted"
  /\ inst.signals.id # inst.state.id
  /\ inst.signals.items = inst.state.items
  /\ Len(inst.signals.items) = 2
  /\ ~effectPending
  /\ Cardinality(listeners) = 2
  /\ {l.id : l \in listeners} = {inst.unsubs[i] : i \in 1..Len(inst.unsubs)}

\* the unsubscribe functions the instance holds, by registration number
Held(unsubs) == {unsubs[i] : i \in 1..Len(unsubs)}

\* C18: each registered callback has exactly one unsubscribe function,
\* held by the instance, and these are called in runs of the effect only:
\* when the stabilized list changed, all of them before the callbacks of
\* the new list are registered (whose numbers are then the lowest ones
\* again), and all of them when the boundary has been removed, after which
\* no callback is registered and a fire schedules no pass.
C18_UnsubscribedOnce ==
  [][ /\ Cardinality(listeners) = Len(inst.unsubs)
      /\ {l.id : l \in listeners} = Held(inst.unsubs)
      /\ (last'.kind = "effect" /\ inst.phase = "mounted")
         => /\ Len(inst'.unsubs) = Len(inst.memoedSignals.items)
            /\ Held(inst'.unsubs) = 1..Len(inst.memoedSignals.items)
            /\ {l.id : l \in listeners'} = Held(inst'.unsubs)
            /\ \A i \in 1..Len(inst'.unsubs) :
                 \E l \in listeners' :
                   /\ l.id = inst'.unsubs[i]
                   /\ l.store = inst.memoedSignals.items[i][1]
                   /\ l.atom = inst.memoedSignals.items[i][2]
      /\ (last'.kind = "effect" /\ inst.phase = "unmounting")
         => /\ listeners' = {}
            /\ inst' = NoInst
      /\ last'.kind # "effect"
         => /\ listeners' = listeners
            /\ inst'.unsubs = inst.unsubs
      /\ inst.phase = "none"
         => /\ listeners = {}
            /\ last'.kind = "set" =>
                 /\ last'.n = 0
                 /\ needsRender' = needsRender
                 /\ inst' = inst
    ]_vars

\* the stabilized list changed from two Signal objects to one: the effect
\* called both unsubscribe functions and registered one callback
C18_Witness ==
  /\ last.kind = "effect"
  /\ inst.phase = "mounted"
  /\ inst.torn # {}
  /\ Len(inst.memoedSignals.items) = 1
  /\ Cardinality(listeners) = 1
  /\ inst.unsubs = <<1>>

\* C19: the Signal objects of two different (store, atom) pairs are
\* different objects, each made for its own pair; the callbacks the effect
\* registers are registered with the store and for the atom of the Signal
\* they belong to; a direct child that is a Signal is rendered as the value
\* its own store holds for its own atom; and a change of a cell that is
\* not the cell of a Signal of the subscribed list (another atom, or the
\* same atom in another store) calls no callback of the boundary and
\* schedules no pass.
C19_HandleIsolation ==
  /\ [](\A s \in Stores, a \in Atoms :
          HasEntry(signalCache, s, a) =>
            /\ signalCache[s][a][1] = s
            /\ signalCache[s][a][2] = a
            /\ \A t \in Stores, b \in Atoms :
                 (HasEntry(signalCache, t, b) /\ <<s, a>> # <<t, b>>)
                   => signalCache[s][a] # signalCache[t][b])
  /\ [][ /\ (last'.kind = "effect" /\ inst.phase = "mounted")
            => SubscribedCells' = CellsIn(inst.memoedSignals.items)
         /\ ( /\ last'.kind = "set"
              /\ inst.phase = "mounted"
              /\ ~effectPending
              /\ <<last'.store, last'.atom>>
                   \notin CellsIn(inst.memoedSignals.items) )
            => /\ last'.n = 0
               /\ inst' = inst
               /\ needsRender' = needsRender
         /\ (last'.kind = "render" /\ pass'.st = "ok")
            => \A i \in 1..Len(elem.props.render.children) :
                 LET child == elem.props.render.children[i]
                 IN (isSignal(child) /\ value[child.h[1]][child.h[2]].pr = 0)
                      => wip'.out.children[i] =
                           Prim(value[child.h[1]][child.h[2]].v)
       ]_vars

\* the boundary is subscribed to (s1, a1) only, and the cell of the same
\* atom in the store s2, for which a Signal exists, changed: nothing is
\* scheduled
C19_Witness ==
  /\ last.kind = "set"
  /\ last.store = "s2"
  /\ last.atom = "a1"
  /\ last.n = 0
  /\ HasEntry(signalCache, "s2", "a1")
  /\ inst.phase = "mounted"
  /\ ~effectPending
  /\ inst.memoedSignals.items = <<H11>>
  /\ SubscribedCells = {<<"s1", "a1">>}
  /\ ~needsRender

\* C20: createElement keeps the props and the children it was given as
\* they are, and so does a pass; the element a pass makes gets the very
\* props object it was given when no handle is inside the props (the
\* handles are direct children only), and the children values it was given
\* when no child is a handle (the handles are inside the props only).
C20_OtherSidePassedThrough ==
  [][ /\ (last'.kind = "parent" /\ IsBoundary(elem')) =>
           /\ elem'.props.render.props = last'.input.props
           /\ elem'.props.render.children = last'.input.children
      /\ last'.kind = "render" =>
           LET given == elem.props.render
               made == wip'.out
           IN /\ elem' = elem
              /\ wip'.has
              /\ findAllSignals(given.props) = <<>> =>
                   /\ DirectChildren(given.children) # <<>>
                   /\ made.props = given.props
              /\ DirectChildren(given.children) = <<>> =>
                   /\ findAllSignals(given.props) # <<>>
                   /\ made.children = given.children
    ]_vars

\* a pass over props that hold NaN and no handle, with a handle as the
\* child, has made an element with the props object it was given
C20_Witness ==
  /\ last.kind = "render"
  /\ wip.has
  /\ IsBoundary(elem)
  /\ elem.props.render.children = <<Sig(H11)>>
  /\ elem.props.render.props.k = "obj"
  /\ elem.props.render.props.items = <<NaN>>
  /\ wip.out.props = elem.props.render.props
  /\ wip.out.children = <<Prim(value["s1"]["a1"].v)>>

====
